---- MODULE Spec2Model ----
(***************************************************************************)
(* Model of the AIWorker panel (src/src/components/AIWorker.jsx): the run  *)
(* lifecycle of performRealAIAnalysis, the auto-start and load-saved-logs  *)
(* effects, the unmount cleanup, and the log / result state.               *)
(*                                                                         *)
(* React state (logs, analyzing, complete, result) is updated only while   *)
(* the component is mounted; the ref analysisInProgress, the run-local     *)
(* array allLogs, pending timeouts and the parent callbacks live on after  *)
(* unmount.  Optional values (null props, absent result) are sets with at  *)
(* most one element.  Wall-clock timestamps of log entries are left out.   *)
(***************************************************************************)
EXTENDS Integers, Sequences, FiniteSets, TLC

\* ---------------------------------------------------------------- bounds
MaxRuns == 2          \* runs started in one behaviour
MaxProgress == 2      \* onProgress callbacks in one behaviour
MaxPropsUpdates == 1  \* re-renders with new snapshot props in one behaviour

Runs == 1..MaxRuns

\* ---------------------------------------------------------------- inputs
\* the stock the panel is constructed for, and the stocks a re-render can
\* pass
Ticker == "AAPL"
Tickers == {"AAPL", "MSFT"}

\* The k-th onProgress callback of a behaviour carries its own message, so
\* that the order of the callbacks shows in the log.
ProgressMessage(k) == ToString(k)
ProgressMessages == { ProgressMessage(k) : k \in 1..MaxProgress }
ErrorMessages == {"timeout"}

Num(v) == [kind |-> "number", val |-> v]
Undefined == [kind |-> "undefined", val |-> 0]
Null == [kind |-> "null", val |-> 0]
\* a number delivered as text ('1.8'); val is what a comparison coerces it to
Text(v) == [kind |-> "string", val |-> v]

\* eodMovement values are in hundredths of a percent (184 is 1.84; -35 is
\* -0.35, a value whose double lies off the decimal half).
AiResult(sig, pct, why, eod, conf) ==
  [signal |-> sig, buyPercentage |-> pct, reasoning |-> why,
   eodMovement |-> eod, confidence |-> conf]

AiResults ==
  { AiResult("buy", 72, "strong momentum", Num(184), 81),
    AiResult("sell", 20, "weak earnings", Num(0 - 35), 60),
    AiResult("hold", 50, "mixed", Num(0), 50),
    AiResult("buy", 65, "upgrade", Undefined, 70),
    AiResult("hold", 45, "no catalyst", Null, 40),
    AiResult("buy", 64, "breakout", Text(180), 75) }

\* ------------------------------------------------------------ log entries
\* the entry the i-th call of addLog builds.  Every call builds a new object
\* and obj tells the objects apart.  Of its fields the message and the type
\* are kept; the id (Date.now() + Math.random()) and the timestamp, values of
\* the clock and the random source, are left out: nothing is said about them.
LogEntry(i, msgIcon, msgText, msgVal, t) ==
  [obj |-> i,
   message |-> [icon |-> msgIcon, text |-> msgText, val |-> msgVal],
   type |-> t]

\* A prior session snapshot: the logs of an earlier successful run.
SnapLogs ==
  << LogEntry(0 - 9, "robot", Ticker, 0, "system"),
     LogEntry(0 - 8, "chart", "price", 0, "info"),
     LogEntry(0 - 7, "news", "news", 0, "info"),
     LogEntry(0 - 6, "brain", "sending", 0, "system"),
     LogEntry(0 - 5, "check", "complete", 0, "success"),
     LogEntry(0 - 4, "target", "HOLD", 55, "result"),
     LogEntry(0 - 3, "thought", "earlier", 0, "reasoning"),
     LogEntry(0 - 2, "up", "+", 3, "forecast") >>

\* result.savedLogs is a reference to an array: 0 is the snapshot's array,
\* r > 0 is the allLogs array of run r.
SnapResult ==
  [signal |-> "hold", buyPercentage |-> 55, reasoning |-> "earlier",
   eodMovement |-> Num(30), confidence |-> 66, savedLogs |-> 0]

SavedLogsOptions == { {}, {<< >>}, {SnapLogs} }
SavedResultOptions == { {}, {SnapResult} }

VARIABLES
  mounted,             \* the component is mounted
  ticker,              \* prop stock.ticker
  autoStart,           \* prop autoStart
  savedLogs,           \* prop savedLogs ({} is null)
  savedResult,         \* prop savedResult ({} is null)
  logs,                \* state logs
  analyzing,           \* state analyzing
  complete,            \* state complete
  result,              \* state result ({} is null)
  analysisInProgress,  \* ref analysisInProgress.current
  timers,              \* pending auto-start timeouts
  timerStocks,         \* the stock in the closure of each pending timeout,
                       \* in the order the timeouts were set
  runStatus,           \* per run: "none", "inflight", "resolved", "rejected",
                       \* "threw" (resolved, then an exception in the try block)
  allLogs,             \* per run: the run-local array allLogs
  progressed,          \* number of onProgress callbacks received
  nextId,              \* number of the next call of addLog
  trace,               \* calls to the parent callbacks and the service, and
                       \* the onProgress callbacks received from the service
  delivered,           \* per run: results passed to onAnalysisComplete
  suppressed,          \* calls of performRealAIAnalysis stopped by the guard
  clicks,              \* user clicks on Analyze / Re-analyze
  reanalyzed,          \* runs started by a click on Re-analyze (from Complete)
  userStarts,          \* runs started by a click, each with whether an
                       \* auto-start timeout was pending at the click
  propsUpdates         \* re-renders with a new snapshot from the parent

vars == << mounted, autoStart, savedLogs, savedResult, logs, analyzing,
           complete, result, analysisInProgress, timers, runStatus, allLogs,
           progressed, nextId, trace, delivered, suppressed, clicks,
           reanalyzed, userStarts, propsUpdates, ticker, timerStocks >>

\* ---------------------------------------------------------------- helpers
Opt(s) == CHOOSE x \in s : TRUE

InFlight == { r \in Runs : runStatus[r] = "inflight" }
Started == { r \in Runs : runStatus[r] # "none" }
Settled == { r \in Runs : runStatus[r] \in {"resolved", "rejected", "threw"} }

Event(e, r, a) == [ev |-> e, run |-> r, arg |-> a]

StartEvents_AnalyzeFirst(r, tk) ==
  << Event("analyzeStock", r, tk), Event("onAnalysisStart", r, tk) >>

\* the calls a run makes when it starts: onAnalysisStart, then analyzeStock
StartEvents(r, tk) ==
  << Event("onAnalysisStart", r, tk), Event("analyzeStock", r, tk) >>

CompleteEvents_Twice(r, tk) ==
  << Event("onAnalysisComplete", r, tk), Event("onAnalysisComplete", r, tk) >>

\* the call onAnalysisComplete?.(stock.ticker, result)
CompleteEvents(r, tk) == << Event("onAnalysisComplete", r, tk) >>

GuardBlocks_StateOnly(an, ref) == an

\* the duplicate-call check: if (analyzing || analysisInProgress.current) return
GuardBlocks(an, ref) == an \/ ref

AllLogsRef_Shared(r) == 1

\* const allLogs = []: every run pushes to an array of its own
AllLogsRef(r) == r

\* the value performRealAIAnalysis stores in analysisInProgress.current when
\* it passes the guard
StartRef_NotSet == FALSE
StartRef == TRUE

\* the value the finally block stores in analysisInProgress.current
FinallyRef_NotReset == TRUE
FinallyRef == FALSE

\* the value the unmount cleanup stores in analysisInProgress.current
CleanupRef == FALSE

ToUpperCase(s) ==
  CASE s = "buy" -> "BUY"
    [] s = "sell" -> "SELL"
    [] s = "hold" -> "HOLD"

Abs(v) == IF v < 0 THEN 0 - v ELSE v

RECURSIVE Pow2Mod100(_)
Pow2Mod100(e) == IF e = 0 THEN 1 ELSE (2 * Pow2Mod100(e - 1)) % 100

\* the number of times p can be doubled without exceeding a
RECURSIVE Doublings(_, _)
Doublings(a, p) == IF 2 * p <= a THEN 1 + Doublings(a, 2 * p) ELSE 0

\* the number of times a must be doubled to reach 100
RECURSIVE DoublingsTo100(_)
DoublingsTo100(a) == IF a >= 100 THEN 0 ELSE 1 + DoublingsTo100(2 * a)

\* the exponent e for which the 53-bit significand of the double nearest
\* a / 100 is a * 2^e / 100 rounded to an integer (a > 0, in hundredths)
SignificandScale(a) ==
  IF a >= 100 THEN 52 - Doublings(a, 100) ELSE 52 + DoublingsTo100(a)

\* the double nearest a / 100 lies below a / 100: the division a * 2^e / 100
\* leaves a remainder under one half, so the significand is rounded down
DoubleIsBelow(a) ==
  LET rem == (a * Pow2Mod100(SignificandScale(a))) % 100
  IN 0 < rem /\ rem < 50

\* toFixed(1) of the double nearest a / 100, a >= 0, in tenths: the decimal
\* nearest the double's exact value, the larger one on an exact tie
ToFixed1Magnitude(a) ==
  LET q == a \div 10
      d == a % 10
  IN IF d < 5 THEN q
     ELSE IF d > 5 THEN q + 1
     ELSE IF DoubleIsBelow(a) THEN q ELSE q + 1

\* Number.prototype.toFixed(1) of a value given in hundredths: tenths.  A
\* negative value is formatted as the sign and its magnitude.
ToFixed1(v) == IF v < 0 THEN 0 - ToFixed1Magnitude(Abs(v)) ELSE ToFixed1Magnitude(v)

InitialLogs_Empty(sl) == << >>

\* useState(savedLogs || [])
InitialLogs(sl) == IF sl = {} THEN << >> ELSE Opt(sl)

HasExistingAnalysis_ResultOnly(sl, sr) == sr # {}

\* hasExistingAnalysis of the auto-start effect
HasExistingAnalysis(sl, sr) == sr # {} \/ (\E l \in sl : Len(l) > 0)

\* the auto-start effect schedules one timeout when its condition holds
AutoStartEffect(as, an, co, sl, sr, ref) ==
  IF as /\ ~an /\ ~co /\ ~HasExistingAnalysis(sl, sr) /\ ~ref THEN 1 ELSE 0

\* the load-saved-logs effect applies when savedLogs is non-empty
LoadApplies(sl) == \E l \in sl : Len(l) > 0

\* the four startup entries of a run for the stock tk
StartupLogs(i, tk) ==
  << LogEntry(i, "robot", tk, 0, "system"),
     LogEntry(i + 1, "chart", "price", 0, "info"),
     LogEntry(i + 2, "news", "news", 0, "info"),
     LogEntry(i + 3, "brain", "sending", 0, "system") >>

MovementDirection_Swapped(v) == IF v > 0 THEN "down" ELSE IF v < 0 THEN "up" ELSE "flat"

\* the direction icon of the forecast entry
MovementDirection(v) == IF v > 0 THEN "up" ELSE IF v < 0 THEN "down" ELSE "flat"

HasEodMovement_UndefinedOnly(ai) == ai.eodMovement.kind # "undefined"

\* aiResult.eodMovement !== undefined && aiResult.eodMovement !== null
HasEodMovement(ai) == ai.eodMovement.kind \notin {"undefined", "null"}

\* aiResult.eodMovement.toFixed(1) throws a TypeError when the value that
\* passed the test above is not a number
ToFixedThrows(ai) == HasEodMovement(ai) /\ ai.eodMovement.kind # "number"

\* error.message of that TypeError
TypeErrorMessage == "toFixed is not a function"

\* the forecast entry; none is appended when toFixed throws
ForecastLogs(i, ai) ==
  IF HasEodMovement(ai) /\ ~ToFixedThrows(ai)
  THEN << LogEntry(i, MovementDirection(ai.eodMovement.val),
                 IF ai.eodMovement.val > 0 THEN "+" ELSE "",
                 ToFixed1(ai.eodMovement.val), "forecast") >>
  ELSE << >>

\* the entries appended after the service resolves
ResolutionLogs(i, ai) ==
  << LogEntry(i, "check", "complete", 0, "success"),
     LogEntry(i + 1, "target", ToUpperCase(ai.signal), ai.buyPercentage, "result"),
     LogEntry(i + 2, "thought", ai.reasoning, 0, "reasoning") >>
  \o ForecastLogs(i + 3, ai)

FinalResult(ai, r) ==
  [signal |-> ai.signal, buyPercentage |-> ai.buyPercentage,
   reasoning |-> ai.reasoning, eodMovement |-> ai.eodMovement,
   confidence |-> ai.confidence, savedLogs |-> r]

ProgressLog_AsInfo(i, m) == LogEntry(i, "", m, 0, "info")

\* the entry the onProgress callback appends
ProgressLog(i, m) == LogEntry(i, "", m, 0, "progress")

ErrorLog(i, m) == LogEntry(i, "cross", m, 0, "error")

FallbackResult_Neutral(r) ==
  [signal |-> "hold", buyPercentage |-> 50, reasoning |-> "AI service unavailable",
   eodMovement |-> Num(0), confidence |-> 20, savedLogs |-> r]

\* the fallback result of the catch block (confidence 0.2 is 20 percent)
FallbackResult(r) ==
  [signal |-> "hold", buyPercentage |-> 30, reasoning |-> "AI service unavailable",
   eodMovement |-> Num(0), confidence |-> 20, savedLogs |-> r]

\* the array a result's savedLogs refers to
SavedLogsOf(res) == IF res.savedLogs = 0 THEN SnapLogs ELSE allLogs[res.savedLogs]

\* ------------------------------------------------------------------- Init
Init ==
  /\ mounted = TRUE
  /\ ticker = Ticker
  /\ autoStart \in BOOLEAN
  /\ savedLogs \in SavedLogsOptions
  /\ savedResult \in SavedResultOptions
  /\ logs = InitialLogs(savedLogs)
  /\ analyzing = FALSE
  /\ complete = (savedResult # {})
  /\ result = savedResult
  /\ analysisInProgress = FALSE
  /\ timers = AutoStartEffect(autoStart, FALSE, savedResult # {}, savedLogs,
                              savedResult, FALSE)
  /\ timerStocks = [k \in 1..timers |-> Ticker]
  /\ runStatus = [r \in Runs |-> "none"]
  /\ allLogs = [r \in Runs |-> << >>]
  /\ progressed = 0
  /\ nextId = 1
  /\ trace = << >>
  /\ delivered = [r \in Runs |-> << >>]
  /\ suppressed = 0
  /\ clicks = 0
  /\ reanalyzed = {}
  /\ userStarts = {}
  /\ propsUpdates = 0

\* ---------------------------------------------------------------- actions
\* the run the next call that passes the guard starts
NextRun == CHOOSE r \in Runs :
             runStatus[r] = "none" /\ \A q \in Runs : q < r => runStatus[q] # "none"

\* performRealAIAnalysis up to the await: an is the value of analyzing and
\* tk the stock in the closure that makes the call.  Leaves timers and clicks to the caller.
PerformRealAIAnalysis(an, tk) ==
  IF GuardBlocks(an, analysisInProgress)
  THEN /\ suppressed' = suppressed + 1
       /\ UNCHANGED << mounted, autoStart, savedLogs, savedResult, logs,
                       analyzing, complete, result, analysisInProgress,
                       runStatus, allLogs, progressed, nextId, trace,
                       delivered, propsUpdates >>
  ELSE \E r \in Runs :
       /\ runStatus[r] = "none"
       /\ \A q \in Runs : q < r => runStatus[q] # "none"
       /\ analysisInProgress' = StartRef
       /\ analyzing' = IF mounted THEN TRUE ELSE analyzing
       /\ complete' = IF mounted THEN FALSE ELSE complete
       /\ logs' = IF mounted THEN StartupLogs(nextId, tk) ELSE logs
       /\ allLogs' = [allLogs EXCEPT ![AllLogsRef(r)] = StartupLogs(nextId, tk)]
       /\ nextId' = nextId + 4
       /\ trace' = trace \o StartEvents(r, tk)
       /\ runStatus' = [runStatus EXCEPT ![r] = "inflight"]
       /\ UNCHANGED << mounted, autoStart, savedLogs, savedResult, result,
                       progressed, delivered, suppressed, propsUpdates >>

\* the oldest auto-start timeout fires (all have the same delay); its
\* closure saw analyzing = false and the stock of the render that set it
TimerFire ==
  /\ timers > 0
  /\ (analysisInProgress \/ \E r \in Runs : runStatus[r] = "none")
  /\ timers' = timers - 1
  /\ timerStocks' = Tail(timerStocks)
  /\ PerformRealAIAnalysis(FALSE, Head(timerStocks))
  /\ UNCHANGED << clicks, reanalyzed, userStarts, ticker >>

\* the user clicks Analyze or Re-analyze (rendered only while not analyzing)
ClickAnalyze ==
  /\ mounted
  /\ ~analyzing
  /\ (analysisInProgress \/ \E r \in Runs : runStatus[r] = "none")
  /\ clicks' = clicks + 1
  /\ reanalyzed' = IF complete /\ ~GuardBlocks(analyzing, analysisInProgress)
                   THEN reanalyzed \cup {NextRun}
                   ELSE reanalyzed
  /\ userStarts' = IF GuardBlocks(analyzing, analysisInProgress)
                   THEN userStarts
                   ELSE userStarts \cup {[run |-> NextRun, pending |-> timers > 0]}
  /\ PerformRealAIAnalysis(analyzing, ticker)
  /\ UNCHANGED << timers, ticker, timerStocks >>

\* the stock in the closure that runs r: the one its start passed on
StockOf(r) ==
  LET k == CHOOSE k \in 1..Len(trace) :
             trace[k].run = r /\ trace[k].ev \in {"onAnalysisStart", "analyzeStock"}
  IN trace[k].arg

\* The service calls onProgress only before it settles the analyzeStock
\* promise: the contract of the analysis service, whose code is not part of
\* the panel.  The callback itself has no such check.
BeforeSettlement(r) == runStatus[r] = "inflight"

\* the service invokes the onProgress callback of run r with message m
OnProgress(r, m) ==
  /\ BeforeSettlement(r)
  /\ progressed < MaxProgress
  /\ m = ProgressMessage(progressed + 1)
  /\ LET progressLog == ProgressLog(nextId, m)
     IN /\ logs' = IF mounted THEN Append(logs, progressLog) ELSE logs
        /\ allLogs' = [allLogs EXCEPT ![AllLogsRef(r)] = Append(@, progressLog)]
  /\ nextId' = nextId + 1
  /\ progressed' = progressed + 1
  /\ trace' = Append(trace, Event("onProgress", r, m))
  /\ UNCHANGED << mounted, autoStart, savedLogs, savedResult, analyzing,
                  complete, result, analysisInProgress, timers, runStatus,
                  delivered, suppressed, clicks, reanalyzed, userStarts,
                  propsUpdates, ticker, timerStocks >>

\* the analyzeStock promise of run r resolves with ai: the rest of the try
\* block, then the finally block.  When toFixed throws, the entries before
\* it are appended already and the catch block runs in the same step.
Resolve(r, ai) ==
  /\ runStatus[r] = "inflight"
  /\ LET threw == ToFixedThrows(ai)
         tried == ResolutionLogs(nextId, ai)
         entries == IF threw
                    THEN Append(tried, ErrorLog(nextId + Len(tried), TypeErrorMessage))
                    ELSE tried
         finalResult == FinalResult(ai, AllLogsRef(r))
         fallbackResult == FallbackResult(AllLogsRef(r))
         passed == IF threw THEN fallbackResult ELSE finalResult
     IN /\ logs' = IF mounted THEN logs \o entries ELSE logs
        /\ allLogs' = [allLogs EXCEPT ![AllLogsRef(r)] = @ \o entries]
        /\ nextId' = nextId + Len(entries)
        /\ complete' = IF mounted /\ ~threw THEN TRUE ELSE complete
        /\ result' = IF mounted THEN {passed} ELSE result
        /\ delivered' = [delivered EXCEPT ![r] = Append(@, passed)]
        /\ runStatus' = [runStatus EXCEPT ![r] = IF threw THEN "threw" ELSE "resolved"]
  /\ trace' = trace \o CompleteEvents(r, StockOf(r))
  /\ analyzing' = IF mounted THEN FALSE ELSE analyzing
  /\ analysisInProgress' = FinallyRef
  /\ UNCHANGED << mounted, autoStart, savedLogs, savedResult, timers,
                  progressed, suppressed, clicks, reanalyzed, userStarts,
                  propsUpdates, ticker, timerStocks >>

\* the analyzeStock promise of run r rejects with message m: the catch
\* block, then the finally block
Reject(r, m) ==
  /\ runStatus[r] = "inflight"
  /\ LET errorLog == ErrorLog(nextId, m)
         fallbackResult == FallbackResult(AllLogsRef(r))
     IN /\ logs' = IF mounted THEN Append(logs, errorLog) ELSE logs
        /\ allLogs' = [allLogs EXCEPT ![AllLogsRef(r)] = Append(@, errorLog)]
        /\ result' = IF mounted THEN {fallbackResult} ELSE result
        /\ delivered' = [delivered EXCEPT ![r] = Append(@, fallbackResult)]
  /\ nextId' = nextId + 1
  /\ trace' = trace \o CompleteEvents(r, StockOf(r))
  /\ analyzing' = IF mounted THEN FALSE ELSE analyzing
  /\ analysisInProgress' = FinallyRef
  /\ runStatus' = [runStatus EXCEPT ![r] = "rejected"]
  /\ UNCHANGED << mounted, autoStart, savedLogs, savedResult, complete,
                  timers, progressed, suppressed, clicks, reanalyzed,
                  userStarts, propsUpdates, ticker, timerStocks >>

\* the component unmounts: the cleanup of the last effect resets the ref
Unmount ==
  /\ mounted
  /\ mounted' = FALSE
  /\ analysisInProgress' = CleanupRef
  /\ UNCHANGED << autoStart, savedLogs, savedResult, logs, analyzing,
                  complete, result, timers, runStatus, allLogs, progressed,
                  nextId, trace, delivered, suppressed, clicks, reanalyzed,
                  userStarts, propsUpdates, ticker, timerStocks >>

\* The snapshot props of a re-render differ (Object.is) from those of the
\* previous render: the parent passes new instances (kept is false) and not
\* null where null was.  A parent that passes the arrays and objects it
\* passed before (kept) changes nothing.
SnapshotChanged(sl, sr, kept) ==
  ~kept /\ (sl # {} \/ savedLogs # {} \/ sr # {} \/ savedResult # {})

\* the parent re-renders the panel with the props stock.ticker tk, autoStart
\* as, savedLogs sl and savedResult sr.  The auto-start effect runs again
\* when one of its dependencies changed, the load-saved-logs effect when one
\* of its own did.
PropsUpdate(tk, as, sl, sr, kept) ==
  /\ mounted
  /\ propsUpdates < MaxPropsUpdates
  /\ kept => (sl = savedLogs /\ sr = savedResult)
  /\ tk # ticker \/ as # autoStart \/ SnapshotChanged(sl, sr, kept)
  /\ propsUpdates' = propsUpdates + 1
  /\ ticker' = tk
  /\ autoStart' = as
  /\ savedLogs' = sl
  /\ savedResult' = sr
  /\ LET set == AutoStartEffect(as, analyzing, complete, sl, sr,
                                analysisInProgress)
     IN /\ timers' = timers + set
        /\ timerStocks' = timerStocks \o [k \in 1..set |-> tk]
  /\ LET loads == SnapshotChanged(sl, sr, kept) /\ LoadApplies(sl)
     IN /\ logs' = IF loads THEN Opt(sl) ELSE logs
        /\ complete' = IF loads THEN sr # {} ELSE complete
        /\ result' = IF loads THEN sr ELSE result
  /\ UNCHANGED << mounted, analyzing, analysisInProgress,
                  runStatus, allLogs, progressed, nextId, trace, delivered,
                  suppressed, clicks, reanalyzed, userStarts >>

\* ------------------------------------------------------- observations
Range(q) == { q[k] : k \in 1..Len(q) }
Types(q) == [k \in 1..Len(q) |-> q[k].type]
Last(q) == q[Len(q)]

\* positions of the events named e of run r in the trace
EventsAt(e, r) == { k \in 1..Len(trace) : trace[k].ev = e /\ trace[k].run = r }

\* the messages the service passed to onProgress during run r, in order
RECURSIVE ProgressOf(_, _)
ProgressOf(tr, r) ==
  IF tr = << >> THEN << >>
  ELSE IF Head(tr).ev = "onProgress" /\ Head(tr).run = r
       THEN << Head(tr).arg >> \o ProgressOf(Tail(tr), r)
       ELSE ProgressOf(Tail(tr), r)

AnalyzeCalls == Cardinality({ k \in 1..Len(trace) : trace[k].ev = "analyzeStock" })
StartCalls == Cardinality({ k \in 1..Len(trace) : trace[k].ev = "onAnalysisStart" })

\* the last run started
LastRun == CHOOSE r \in Started : \A q \in Started : q <= r

\* the props are still the ones the panel was constructed with
AsConstructed == propsUpdates = 0

\* ------------------------------------------------------------- claims

\* C1: in every reachable state at most one run (one outstanding
\* analyzeStock call) is in flight.  Stated as the claim has it; the code
\* violates it: teardown clears the guard while the call is outstanding and
\* a pending auto-start timeout then starts a second run.
C1_AtMostOneRunInFlight == Cardinality(InFlight) <= 1

\* C2: for every run that is started, onAnalysisComplete is invoked exactly
\* once, on resolution and on rejection alike: never twice, once as soon as
\* the run has settled, and every started run reaches that call.
C2_CompleteExactlyOncePerRun ==
  /\ [](\A r \in Runs :
          /\ Cardinality(EventsAt("onAnalysisComplete", r)) = Len(delivered[r])
          /\ Len(delivered[r]) <= 1
          /\ (r \in Settled <=> Len(delivered[r]) = 1))
  /\ \A r \in Runs : (runStatus[r] = "inflight") ~> (Len(delivered[r]) = 1)

C2_Witness ==
  /\ \E r \in Runs : runStatus[r] = "resolved" /\ Len(delivered[r]) = 1
  /\ \E r \in Runs : runStatus[r] = "rejected" /\ Len(delivered[r]) = 1

\* C3: every started run invokes onAnalysisStart exactly once, before its
\* analyzeStock call; a call suppressed by the guard invokes it zero times,
\* so the number of onAnalysisStart calls is the number of started runs.
C3_StartOncePerRunBeforeAnalyze ==
  /\ \A r \in Started :
       /\ Cardinality(EventsAt("onAnalysisStart", r)) = 1
       /\ Cardinality(EventsAt("analyzeStock", r)) = 1
       /\ \A i \in EventsAt("onAnalysisStart", r) :
            \A j \in EventsAt("analyzeStock", r) : i < j
  /\ \A r \in Runs \ Started : EventsAt("onAnalysisStart", r) = {}
  /\ StartCalls = Cardinality(Started)

C3_Witness == suppressed > 0 /\ Started # {} /\ StartCalls = Cardinality(Started)

\* C4: whenever the guard has been set it eventually becomes false, and the
\* guard is never set without a run in flight that can clear it.
C4_GuardEventuallyCleared ==
  /\ [](analysisInProgress => InFlight # {})
  /\ analysisInProgress ~> ~analysisInProgress

C4_Witness ==
  /\ ~analysisInProgress
  /\ \E r \in Runs : runStatus[r] = "rejected"
  /\ \E r \in Runs : runStatus[r] = "resolved"

\* C5 as stated: the guard is true in every state in which a run's request
\* is in flight and false when none is.
C5_GuardTrueWhileInFlight == analysisInProgress <=> InFlight # {}

\* C5 amended: the guard is false immediately before a run begins and
\* immediately after a run finishes, it is never set without a run in
\* flight, and while the panel is mounted it is true in every state in which
\* a run is in flight (teardown clears it mid-run).
C5_GuardTrueWhileInFlightAndMounted ==
  /\ [](analysisInProgress => InFlight # {})
  /\ [](mounted => (analysisInProgress <=> InFlight # {}))
  /\ [][/\ (Started' # Started => ~analysisInProgress /\ analysisInProgress')
        /\ (Settled' # Settled => ~analysisInProgress')]_vars

C5_Witness == mounted /\ analysisInProgress /\ InFlight # {} /\ Settled # {}

\* C6: a panel constructed with a snapshot whose logs are non-empty makes no
\* analyzeStock call, and schedules none, until the user clicks.
C6_NoAnalyzeOnSnapshotUntilClick ==
  (AsConstructed /\ LoadApplies(savedLogs) /\ clicks = 0)
    => (AnalyzeCalls = 0 /\ timers = 0 /\ InFlight = {})

C6_Witness ==
  /\ AsConstructed /\ LoadApplies(savedLogs) /\ savedResult = {} /\ autoStart
  /\ clicks = 0 /\ ~mounted /\ AnalyzeCalls = 0

\* C7: a panel with autoStart and no snapshot makes, without a click, never
\* a second analyzeStock call.  Stated as the claim has it, for a mounted
\* panel whose props are autoStart, no snapshot and the stock it was
\* constructed for; the code violates it: the auto-start effect runs again
\* on every re-render that changes one of its dependencies (a new empty
\* savedLogs array; another stock.ticker does the same) and sets a further
\* timeout, which starts a second run when no run is in flight.
\* (The first call does happen: the timeout set at mount is never cleared.)
C7_AutoStartExactlyOneCall ==
  (mounted /\ autoStart /\ ~HasExistingAnalysis(savedLogs, savedResult)
     /\ ticker = Ticker /\ clicks = 0)
    => AnalyzeCalls <= 1

\* the categories a successful run appends after the service resolves
PostResolutionTypes == {"success", "result", "reasoning", "forecast", "error"}

\* n progress categories in a row
ProgressTypes(n) == [k \in 1..n |-> "progress"]

\* C8: the log of a run in which the service invoked onProgress N times has
\* exactly N progress entries, carrying the callback messages in callback
\* order, right after the four startup entries and before every
\* post-resolution entry; the panel shows that log while it is mounted with
\* the snapshot it was constructed with.
C8_ProgressEntriesInCallbackOrder ==
  /\ \A r \in Started :
       LET L == allLogs[r]
           P == ProgressOf(trace, r)
           N == Len(P)
       IN /\ Len(L) >= 4 + N
          /\ SubSeq(Types(L), 1, 4) = << "system", "info", "info", "system" >>
          /\ \A k \in 1..N :
               L[4 + k].type = "progress" /\ L[4 + k].message.text = P[k]
          /\ \A k \in (4 + N + 1)..Len(L) : L[k].type \in PostResolutionTypes
          /\ (r \in InFlight => Len(L) = 4 + N)
  /\ (mounted /\ AsConstructed /\ Started # {}) => logs = allLogs[LastRun]

C8_Witness ==
  \E r \in Settled :
    /\ Len(ProgressOf(trace, r)) = 2
    /\ mounted /\ AsConstructed /\ r = LastRun /\ logs = allLogs[r]

\* C9: when the service resolves with a defined eodMovement, the savedLogs
\* of the delivered result have the categories system, info, info, system,
\* N times progress, success, result, reasoning, forecast, and the forecast
\* entry shows the direction of the movement (up, down or flat by its sign).
C9_SuccessLogShapeWithForecast ==
  \A r \in Runs :
    (runStatus[r] = "resolved" /\ delivered[r][1].eodMovement.kind = "number")
      => LET res == delivered[r][1]
             L == SavedLogsOf(res)
             v == res.eodMovement.val
         IN /\ Types(L) = << "system", "info", "info", "system" >>
                          \o ProgressTypes(Len(ProgressOf(trace, r)))
                          \o << "success", "result", "reasoning", "forecast" >>
            /\ (v > 0 => Last(L).message.icon = "up" /\ Last(L).message.text = "+")
            /\ (v < 0 => Last(L).message.icon = "down" /\ Last(L).message.val < 0)
            /\ (v = 0 => Last(L).message.icon = "flat" /\ Last(L).message.val = 0)

C9_Witness ==
  /\ \E r \in Runs : /\ runStatus[r] = "resolved"
                     /\ delivered[r][1].eodMovement = Num(184)
                     /\ Len(ProgressOf(trace, r)) > 0
                     /\ Last(SavedLogsOf(delivered[r][1])).message.icon = "up"
  /\ \E r \in Runs : /\ runStatus[r] = "resolved"
                     /\ delivered[r][1].eodMovement.kind = "number"
                     /\ delivered[r][1].eodMovement.val < 0

\* C10: when the service resolves with eodMovement undefined or null, no
\* forecast entry is appended for the run: the delivered savedLogs hold none
\* and end with the reasoning entry, and so does the panel's log.
C10_NoForecastWithoutEodMovement ==
  /\ [](\A r \in Runs :
          (runStatus[r] = "resolved" /\ delivered[r][1].eodMovement.kind # "number")
            => LET L == SavedLogsOf(delivered[r][1])
               IN /\ \A k \in 1..Len(L) : L[k].type # "forecast"
                  /\ Last(L).type = "reasoning"
                  /\ \A k \in 1..Len(logs) :
                       logs[k].type = "forecast" => logs[k] \notin Range(allLogs[r])
                  /\ (mounted /\ AsConstructed /\ r = LastRun)
                       => /\ \A k \in 1..Len(logs) : logs[k].type # "forecast"
                          /\ Last(logs).type = "reasoning")
  /\ [][\A r \in Runs, ai \in AiResults :
          (Resolve(r, ai) /\ ai.eodMovement.kind \in {"undefined", "null"})
            => /\ runStatus'[r] = "resolved"
               /\ delivered'[r][1].eodMovement = ai.eodMovement
               /\ \A k \in 1..Len(allLogs'[r]) : allLogs'[r][k].type # "forecast"
               /\ Last(allLogs'[r]).type = "reasoning"]_vars

C10_Witness ==
  /\ mounted /\ AsConstructed
  /\ \E r \in Runs : /\ runStatus[r] = "resolved" /\ r = LastRun
                     /\ delivered[r][1].eodMovement = Null
  /\ \E r \in Runs : /\ runStatus[r] = "resolved"
                     /\ delivered[r][1].eodMovement = Undefined

\* C11: when the service call rejects with message m, the result passed to
\* onAnalysisComplete is the fallback (hold, 30 percent, confidence 0.2,
\* eodMovement 0, reasoning "AI service unavailable"), the run's log holds
\* exactly one error entry, and the last entry of the panel's log and of the
\* result's savedLogs is that error entry and carries m.
C11_RejectionGivesFallbackAndErrorEntry ==
  /\ [](\A r \in Runs :
          runStatus[r] = "rejected"
            => LET res == delivered[r][1]
                   L == SavedLogsOf(res)
               IN /\ res.signal = "hold"
                  /\ res.buyPercentage = 30
                  /\ res.confidence = 20
                  /\ res.eodMovement = Num(0)
                  /\ res.reasoning = "AI service unavailable"
                  /\ res.savedLogs = r
                  /\ Cardinality({ k \in 1..Len(L) : L[k].type = "error" }) = 1
                  /\ Last(L).type = "error"
                  /\ Last(L).message.text \in ErrorMessages)
  /\ [][\A r \in Runs, m \in ErrorMessages :
          Reject(r, m)
            => /\ Last(allLogs'[r]).type = "error"
               /\ Last(allLogs'[r]).message.text = m
               /\ Len(allLogs'[r]) = Len(allLogs[r]) + 1
               /\ (mounted => /\ Last(logs').type = "error"
                              /\ Last(logs').message.text = m
                              /\ Len(logs') = Len(logs) + 1
                              /\ result' = {delivered'[r][1]})]_vars

C11_Witness ==
  \E r \in Runs :
    /\ runStatus[r] = "rejected" /\ mounted /\ r = LastRun
    /\ Len(ProgressOf(trace, r)) > 0
    /\ Last(logs).type = "error" /\ Last(logs).message.text = "timeout"
    /\ result = {delivered[r][1]}

\* the entries of the snapshot and of the runs started before run r
PriorEntries(r) ==
  Range(SnapLogs) \cup UNION { Range(allLogs[q]) : q \in { x \in Runs : x < r } }

\* C12: a re-analyze started from Complete resets the panel's logs before the
\* new run's first entry, and from then on through the end of the new run
\* neither the panel's logs nor the new result's savedLogs holds an entry of
\* the prior run or of the snapshot.  Stated as the claim has it; the code
\* violates it: the load-saved-logs effect runs again when the parent
\* re-renders with a snapshot during the run and puts the snapshot's entries
\* back into the panel's logs.
C12_ReanalyzeLeaksNoPriorEntries ==
  \A r \in reanalyzed :
    /\ Range(allLogs[r]) \cap PriorEntries(r) = {}
    /\ (r \in InFlight => Range(logs) \cap PriorEntries(r) = {})
    /\ (r \in Settled /\ r = LastRun /\ ~analyzing /\ mounted /\ AsConstructed)
         => Range(logs) \cap PriorEntries(r) = {}

\* C13: in every reachable state analyzing and complete are not both true.
\* Stated as the claim has it; the code violates it: the load-saved-logs
\* effect sets complete from the snapshot while a run is analyzing.
C13_NotRunningAndComplete == ~(analyzing /\ complete)

\* C14: the panel's result is present if and only if complete is true or the
\* snapshot supplied a result.  Stated as the claim has it, for a panel that
\* keeps the props it was constructed with; the code violates it after a
\* failed run, which stores the fallback result and leaves complete false.
C14_ResultIffCompleteOrSnapshot ==
  AsConstructed => ((result # {}) <=> (complete \/ savedResult # {}))

\* a call of performRealAIAnalysis is made in this step
CallStep == timers' = timers - 1 \/ clicks' = clicks + 1

\* C15: a call of performRealAIAnalysis made while the guard is set is a
\* no-op: logs, analyzing, complete, result and the guard stay as they are,
\* no callback is invoked, no analyzeStock call is made and no run starts.
C15_GuardedCallIsNoOp ==
  [][(CallStep /\ analysisInProgress)
       => /\ suppressed' = suppressed + 1
          /\ UNCHANGED << logs, analyzing, complete, result,
                          analysisInProgress, trace, runStatus, allLogs,
                          delivered, nextId >>]_vars

C15_Witness == suppressed > 0 /\ InFlight # {} /\ mounted /\ Len(logs) > 4

\* the panel is in the Failed state: its last run ended in the catch block,
\* none is in flight
Failed == Started # {} /\ InFlight = {} /\ runStatus[LastRun] \in {"rejected", "threw"}

\* C16: after a run fails no further analyzeStock call is made until the
\* user clicks.  Stated as the claim has it, for a mounted panel that keeps
\* the props it was constructed with; the code violates it: an auto-start
\* timeout still pending from mount fires after the failure and starts a run.
C16_NoAutomaticRetryAfterFailure ==
  [][(Failed /\ mounted /\ AsConstructed /\ AnalyzeCalls' > AnalyzeCalls)
       => clicks' = clicks + 1]_vars

IsPrefix(p, q) == Len(p) <= Len(q) /\ SubSeq(q, 1, Len(p)) = p

\* C17: between run starts the panel's log is append-only: every step either
\* extends it or is the reset at the start of a new run.  Stated as the claim
\* has it; the code violates it: the load-saved-logs effect replaces the log
\* with the snapshot's when the parent re-renders with a snapshot.
C17_LogsAppendOnly ==
  [][IsPrefix(logs, logs') \/ Started' # Started]_vars

\* C18: a panel constructed with a snapshot shows it as it is: logs are the
\* snapshot's savedLogs, result is savedResult, complete holds exactly when
\* savedResult is present, analyzing is false and the guard is clear, no
\* auto-start is pending, and all of this stays so until the user clicks.
C18_RestoredSnapshotShownUntilClick ==
  (AsConstructed /\ clicks = 0 /\ HasExistingAnalysis(savedLogs, savedResult))
    => /\ logs = (IF savedLogs = {} THEN << >> ELSE Opt(savedLogs))
       /\ result = savedResult
       /\ complete = (savedResult # {})
       /\ ~analyzing
       /\ ~analysisInProgress
       /\ timers = 0
       /\ Started = {}

C18_Witness ==
  /\ AsConstructed /\ clicks = 0 /\ autoStart /\ ~mounted
  /\ logs = SnapLogs /\ result = {SnapResult} /\ complete

\* C19: a result passed to onAnalysisComplete never changes afterwards:
\* neither its fields nor the array its savedLogs refers to, whatever later
\* progress callbacks, later runs or teardown do.
C19_DeliveredResultImmutable ==
  [][\A r \in Settled :
       /\ delivered'[r] = delivered[r]
       /\ allLogs'[delivered[r][1].savedLogs] = allLogs[delivered[r][1].savedLogs]]_vars

C19_Witness ==
  \E r \in Settled : \E q \in Started :
    /\ q > r /\ ~mounted
    /\ Len(ProgressOf(trace, q)) > 0
    /\ Len(delivered[r]) = 1

\* C20: once the panel is unmounted no new run starts: onAnalysisStart is
\* not invoked and no analyzeStock call is made.  Stated as the claim has it;
\* the code violates it: the auto-start timeout is not cleared on unmount.
C20_NoRunAfterTeardown ==
  [][~mounted => (Started' = Started /\ AnalyzeCalls' = AnalyzeCalls
                  /\ StartCalls' = StartCalls)]_vars

\* C21: when the user has started a run by a click while the auto-start
\* timeout was pending, that timeout never causes a further run: whenever the
\* manual run settles relative to the timeout, the number of analyzeStock
\* calls is the number of clicks that passed the guard.  Stated as the claim
\* has it, for a mounted panel that keeps the props it was constructed with;
\* the code violates it: when the manual run settles before the timeout
\* fires, the timeout finds the guard clear and starts a run of its own.
C21_PendingAutoStartAddsNoRun ==
  (mounted /\ AsConstructed /\ \E s \in userStarts : s.pending)
    => AnalyzeCalls = Cardinality(userStarts)

\* C22: at the moment onAnalysisComplete is invoked for a run, on success
\* and on failure, the savedLogs of the delivered result (the run's allLogs)
\* equal the panel's logs with the run's appends applied, entry by entry and
\* in the same order.  Stated as the claim has it, for a mounted panel; the
\* code violates it: the load-saved-logs effect runs again when the parent
\* re-renders with a snapshot during the run and replaces the panel's logs,
\* so the run's later entries are appended to the snapshot's.
C22_SavedLogsEqualPanelLogs ==
  [][\A r \in Runs :
       (mounted /\ r \in Settled' /\ r \notin Settled)
         => allLogs'[delivered'[r][1].savedLogs] = logs']_vars

Settle(r) ==
  \/ \E ai \in AiResults : Resolve(r, ai)
  \/ \E m \in ErrorMessages : Reject(r, m)

Progress == \E r \in Runs, m \in ProgressMessages : OnProgress(r, m)
Resolved == \E r \in Runs, ai \in AiResults : Resolve(r, ai)
Rejected == \E r \in Runs, m \in ErrorMessages : Reject(r, m)
Rerender ==
  \E tk \in Tickers, as \in BOOLEAN, sl \in SavedLogsOptions,
     sr \in SavedResultOptions, kept \in BOOLEAN :
    PropsUpdate(tk, as, sl, sr, kept)

Next ==
  \/ TimerFire
  \/ ClickAnalyze
  \/ Progress
  \/ Resolved
  \/ Rejected
  \/ Unmount
  \/ Rerender

Spec == Init /\ [][Next]_vars

\* the event loop runs a due timeout, and the service settles every call
FairSpec ==
  /\ Spec
  /\ WF_vars(TimerFire)
  /\ \A r \in Runs : WF_vars(Settle(r))
====
